---- MODULE Spec2Model ----
(***************************************************************************)
(* A model of the competitive_analysis package: the analyze command and    *)
(* _run_analysis (cli.py), the rate-limited fetcher (analyzers/base.py),   *)
(* the web, seo, news and social analyzers, and the competitor registry    *)
(* (config.py).                                                            *)
(*                                                                         *)
(* Python values are records with a "type" field, so that None can be      *)
(* compared with any of them.  Time is counted in ticks of the event       *)
(* loop's clock.                                                           *)
(***************************************************************************)
EXTENDS Integers, Sequences, FiniteSets, TLC

VARIABLES
    \* ---- analyze / _run_analysis (cli.py) and the analyzers ----
    competitor,         \* the Competitor being analysed
    analysis_type,      \* --type option: None or a kind
    run_all,            \* --all flag
    output,             \* --output option: None or a path
    rate_limit_delay,   \* Config.rate_limit_delay, in ticks
    pc,                 \* position of the analyze command
    types_to_run,       \* _run_analysis: the list the for loop walks
    idx,                \* index of the loop in types_to_run (1-based)
    result,             \* the AnalysisResult under construction
    status,             \* per analyzer: idle, running, returned, raised
    retval,             \* per analyzer: what analyze() returned
    started,            \* the kinds whose analyze() was called, in order
    now,                \* the event loop's clock
    wake,               \* when the pending asyncio.sleep is due
    last_request_time,  \* per analyzer instance: BaseAnalyzer._last_request_time
    requests,           \* outbound HTTP requests started: [by, at, done]
    console,            \* the messages printed by _run_analysis
    exported,           \* None, or the format the result was exported in
    \* ---- NewsAnalyzer on one feed response ----
    news_pc, news_response, news_result,
    \* ---- WebAnalyzer on one page ----
    web_pc, web_page, web_result,
    \* ---- the competitor registry (config.py) and its callers ----
    file,               \* CONFIG_FILE: absent, empty, garbage, or a JSON document
    cpc,                \* per caller: idle, load, save_open, save_write
    cop,                \* per caller: the call in progress
    cfg,                \* per caller: the Config it loaded, as changed in memory
    history,            \* the completed calls, in order of completion
    overlapped          \* whether two calls were ever in progress together

runVars == <<competitor, analysis_type, run_all, output, rate_limit_delay, pc,
             types_to_run, idx, result, status, retval, started, now, wake,
             last_request_time, requests, console, exported>>
newsVars == <<news_pc, news_response, news_result>>
webVars == <<web_pc, web_page, web_result>>
regVars == <<file, cpc, cop, cfg, history, overlapped>>

VARIABLES
    \* ---- export_csv on one AnalysisResult (exporters.py) ----
    csv_pc, csv_result, csv_rows,
    \* ---- _detect_technologies on one document (analyzers/web.py) ----
    tech_pc, tech_html, tech_outs,
    \* ---- one analyzer instance and its fetch_url calls (analyzers/base.py) ----
    fetch_pc,           \* idle, sleep, request
    fetch_delay,        \* self._config.rate_limit_delay, in ticks
    fetch_now,          \* the event loop's clock
    fetch_wake,         \* when the pending asyncio.sleep is due
    fetch_last,         \* self._last_request_time
    fetch_log,          \* the requests sent: [at, done]
    \* ---- SocialAnalyzer.analyze on one competitor (analyzers/social.py) ----
    social_pc,          \* call, fetch, done
    social_competitor,  \* the Competitor analysed
    social_profiles,    \* the list `profiles`
    social_requests,    \* the URLs requested
    social_response,    \* what the LinkedIn request got: a response or a failure
    social_result,      \* what analyze() returned
    social_raised,      \* whether analyze() raised
    \* ---- SEOAnalyzer.analyze on one page (analyzers/seo.py) ----
    seo_pc, seo_page, seo_result, seo_raised

csvVars == <<csv_pc, csv_result, csv_rows>>
techVars == <<tech_pc, tech_html, tech_outs>>
fetchVars == <<fetch_pc, fetch_delay, fetch_now, fetch_wake, fetch_last, fetch_log>>
seoVars == <<seo_pc, seo_page, seo_result, seo_raised>>
socialVars == <<social_pc, social_competitor, social_profiles, social_requests,
                social_response, social_result, social_raised>>

\* the variables of the parts examined one function at a time
restVars == <<csvVars, techVars, fetchVars, socialVars, seoVars>>

-----------------------------------------------------------------------------
(* Bounds of the model.                                                    *)

MaxDelay == 2       \* rate_limit_delay ranges over 1..MaxDelay ticks
MaxLatency == 1     \* a request, or a late timer, takes 0..MaxLatency ticks
MaxFeedLen == 22    \* items in a news feed
MaxSkipped == 1     \* items of a feed lacking a title or a link
MaxDocLen == 22     \* heading elements in a page
MaxCalls == 3       \* calls of the registry functions in one behaviour
MaxCsvList == 11    \* elements of a list of the exported result
MaxFragments == 2   \* fragments a document is made of
MaxFetches == 3     \* fetch_url calls on one analyzer instance
MaxSeoHeadings == 11 \* h1, and h2, elements in a page
MaxScripts == 7     \* JSON-LD script elements in a page

-----------------------------------------------------------------------------
(* Values.                                                                 *)

None == [type |-> "None"]

Str(s) == [type |-> "str", s |-> s]

\* a str whose characters matter: the sequence of its characters
Text(chars) == [type |-> "str", chars |-> chars]

\* if x: None and the empty string are falsy
Truthy(x) == x # None /\ x # Str("") /\ x # Text(<<>>)

\* an int held by an optional field
IntVal(n) == [type |-> "int", v |-> n]

Kinds == {"web", "seo", "news", "social"}

Take(s, n) == SubSeq(s, 1, IF Len(s) < n THEN Len(s) ELSE n)

Range(s) == {s[i] : i \in DOMAIN s}

Min(a, b) == IF a < b THEN a ELSE b

-----------------------------------------------------------------------------
(* WebAnalyzer: the headings of a page (analyzers/web.py).                 *)
(* A page is the sequence of its heading elements in document order; an    *)
(* element is [tag, text], text 0 standing for a text that is empty after  *)
(* get_text(strip=True), any other number for a distinct non-empty text.   *)

HeadingTags == <<"h1", "h2", "h3">>

HeadingsCap == 20

find_all(page, tag) == SelectSeq(page, LAMBDA h : h.tag = tag)

\* f"{tag}: {text}"
HeadingEntry(tag, text) == [type |-> "str", tag |-> tag, text |-> text]

\* for heading in soup.find_all(tag): text = ...; if text: headings.append(...)
RECURSIVE AppendHeadings(_, _, _)
AppendHeadings(headings, tag, found) ==
    IF found = <<>> THEN headings
    ELSE AppendHeadings(IF Head(found).text # 0
                        THEN Append(headings, HeadingEntry(tag, Head(found).text))
                        ELSE headings,
                        tag, Tail(found))

RECURSIVE ExtractHeadingsFrom(_, _, _)
ExtractHeadingsFrom(headings, page, t) ==
    IF t > Len(HeadingTags) THEN headings
    ELSE ExtractHeadingsFrom(
             AppendHeadings(headings, HeadingTags[t], find_all(page, HeadingTags[t])),
             page, t + 1)

RECURSIVE ExtractHeadingsDocOrder(_)
ExtractHeadingsDocOrder(page) ==
    IF page = <<>> THEN <<>>
    ELSE (IF Head(page).text # 0 /\ Head(page).tag \in Range(HeadingTags)
          THEN <<HeadingEntry(Head(page).tag, Head(page).text)>> ELSE <<>>)
         \o ExtractHeadingsDocOrder(Tail(page))

\* headings = []; for tag in ["h1", "h2", "h3"]: for heading in soup.find_all(tag): ...
ExtractHeadings(page) == ExtractHeadingsFrom(<<>>, page, 1)

WebAnalysisResult(headings) ==
    [type |-> "WebAnalysisResult", headings |-> headings]

WebAnalyze(page) == WebAnalysisResult(Take(ExtractHeadings(page), HeadingsCap))

-----------------------------------------------------------------------------
(* NewsAnalyzer (analyzers/news.py).                                       *)
(* A response is [kind, body]: kind "ok", or the failure fetch_url raises; *)
(* body is the XML text: malformed, or a document with or without a        *)
(* channel element and the channel's items in feed order.  An item is      *)
(* [id, title, link]: whether it has a title and a link element.           *)

NewsCap == 20

MalformedXml == [type |-> "xml", wellformed |-> FALSE, channel |-> FALSE, items |-> <<>>]

Rss(items) == [type |-> "xml", wellformed |-> TRUE, channel |-> TRUE, items |-> items]

NoChannel == [type |-> "xml", wellformed |-> TRUE, channel |-> FALSE, items |-> <<>>]

NewsItem(item) == [type |-> "NewsItem", title |-> item.id, url |-> item.id]

\* if title_elem is None or link_elem is None: continue
SkippedNoTitleOnly(item) == ~item.title

Skipped(item) == ~item.title \/ ~item.link

RECURSIVE ParseItems(_, _)
ParseItems(items, acc) ==
    IF items = <<>> THEN acc
    ELSE ParseItems(Tail(items),
                    IF Skipped(Head(items)) THEN acc
                    ELSE Append(acc, NewsItem(Head(items))))

\* _parse_rss: ElementTree.ParseError is caught and the items so far returned
_parse_rss(xml) ==
    IF ~xml.wellformed THEN <<>>
    ELSE IF ~xml.channel THEN <<>>
    ELSE ParseItems(xml.items, <<>>)

NewsAnalysisResult(items, total) ==
    [type |-> "NewsAnalysisResult", items |-> items, total_mentions |-> total]

\* fetch_url: the transport fails, or raise_for_status raises on a non-2xx status
FetchRaises(response) == response.kind # "ok"

Exceptions == {"ConnectError", "HTTPStatusError"}

FetchException(response) ==
    IF response.kind = "transport" THEN "ConnectError" ELSE "HTTPStatusError"

\* NewsAnalyzer.analyze: except Exception
NewsCatchesStatusOnly(exc) == exc = "HTTPStatusError"

NewsCatches(exc) == exc \in Exceptions

\* the outcome of NewsAnalyzer.analyze: [raised, value]
NewsAnalyze(response) ==
    IF FetchRaises(response)
    THEN IF NewsCatches(FetchException(response))
         THEN [raised |-> FALSE, value |-> NewsAnalysisResult(<<>>, 0)]
         ELSE [raised |-> TRUE, value |-> None]
    ELSE LET items == _parse_rss(response.body)
         IN  [raised |-> FALSE,
              value |-> NewsAnalysisResult(Take(items, NewsCap), Len(items))]

-----------------------------------------------------------------------------
(* SEOAnalyzer and SocialAnalyzer (analyzers/seo.py, analyzers/social.py). *)

SEOAnalysisResult == [type |-> "SEOAnalysisResult"]

SocialProfile(platform, handle, bio) ==
    [type |-> "SocialProfile", platform |-> platform, handle |-> handle,
     followers |-> None, following |-> None, posts_count |-> None,
     bio |-> bio, verified |-> FALSE]

SocialAnalysisResult(profiles) ==
    [type |-> "SocialAnalysisResult", profiles |-> profiles]

\* str.lstrip(c): every leading c is removed
RECURSIVE lstrip(_, _)
lstrip(chars, c) ==
    IF chars # <<>> /\ Head(chars) = c THEN lstrip(Tail(chars), c) ELSE chars

_analyze_twitter_no_lstrip(handle) ==
    SocialProfile("twitter", Text(<<"@">> \o handle.chars), None)

\* _analyze_twitter: handle = handle.lstrip("@"); the profile has the handle
\* f"@{handle}"; no request is made
_analyze_twitter(handle) ==
    SocialProfile("twitter", Text(<<"@">> \o lstrip(handle.chars, "@")), None)

\* the part of SocialAnalyzer.analyze before the LinkedIn fetch
TwitterProfiles(c) ==
    IF Truthy(c.twitter) THEN <<_analyze_twitter(c.twitter)>> ELSE <<>>

\* _analyze_linkedin: except Exception returns the minimal profile
_analyze_linkedin(profile_url, response) ==
    IF FetchRaises(response)
    THEN SocialProfile("linkedin", profile_url, None)
    ELSE SocialProfile("linkedin", profile_url, response.body.bio)

-----------------------------------------------------------------------------
(* The analyzers as _run_analysis sees them.                               *)

NoUrlNever(c) == FALSE

\* if not competitor.url: return None
NoUrl(c) == c.url = None

\* whether analyze() of kind k reaches fetch_url for competitor c
NeedsFetch(k, c) ==
    CASE k \in {"web", "seo"} -> ~NoUrl(c)
      [] k = "news" -> TRUE
      [] k = "social" -> Truthy(c.linkedin)

\* what analyze() of kind k returns when it makes no request
ReturnsWithoutFetch(k, c) ==
    IF k = "social" THEN SocialAnalysisResult(TwitterProfiles(c)) ELSE None

\* the outcome [raised, exc, value] of analyze() of kind k once the response is in
AnalyzeOutcome(k, c, response) ==
    CASE k = "news" ->
           LET o == NewsAnalyze(response)
           IN  [raised |-> o.raised, exc |-> FetchException(response), value |-> o.value]
      [] k = "social" ->
           [raised |-> FALSE, exc |-> "",
            value |-> SocialAnalysisResult(
                TwitterProfiles(c) \o <<_analyze_linkedin(c.linkedin, response)>>)]
      [] k \in {"web", "seo"} ->
           IF FetchRaises(response)
           THEN [raised |-> TRUE, exc |-> FetchException(response), value |-> None]
           ELSE [raised |-> FALSE, exc |-> "",
                 value |-> IF k = "web" THEN WebAnalyze(response.body)
                           ELSE SEOAnalysisResult]

-----------------------------------------------------------------------------
(* Competitor and its JSON form (models.py, config.py).                    *)
(* A URL string is [host, path]; "https://acme.test" has the empty path.   *)

UrlStr(host, path) == [type |-> "str", host |-> host, path |-> path]

\* pydantic's HttpUrl: a URL with no path gets the path "/"
HttpUrl(s) ==
    [type |-> "HttpUrl", host |-> s.host, path |-> IF s.path = "" THEN "/" ELSE s.path]

\* str(url)
UrlToStr(u) == UrlStr(u.host, u.path)

\* Competitor(name=..., url=..., twitter=..., linkedin=...), created at time t
Competitor(name, url, twitter, linkedin, t) ==
    [type |-> "Competitor", name |-> name,
     url |-> IF url = None THEN None ELSE HttpUrl(url),
     twitter |-> twitter, linkedin |-> linkedin, created_at |-> t]

DumpCompetitorNoUrl(c) ==
    [name |-> c.name, url |-> None,
     twitter |-> c.twitter, linkedin |-> c.linkedin, created_at |-> c.created_at]

\* model_dump_json of one Competitor
DumpCompetitor(c) ==
    [name |-> c.name, url |-> IF c.url = None THEN None ELSE UrlToStr(c.url),
     twitter |-> c.twitter, linkedin |-> c.linkedin, created_at |-> c.created_at]

\* Config.model_validate of one entry of "competitors"
ValidateCompetitor(j) ==
    Competitor(j.name, j.url, j.twitter, j.linkedin, j.created_at)

-----------------------------------------------------------------------------
(* The inputs of one run.                                                  *)

Competitors ==
    [type : {"Competitor"}, name : {"Acme"}, created_at : {0},
     url : {None, HttpUrl(UrlStr("acme.test", ""))},
     twitter : {None, Text(<<"@", "a", "c", "m", "e">>)},
     linkedin : {None, Str("https://linkedin.test/acme")}]

Heading(tag, text) == [tag |-> tag, text |-> text]

SmallPages == {<<Heading("h2", 1), Heading("h1", 2)>>}

FullItem(i) == [id |-> i, title |-> TRUE, link |-> TRUE]

SmallFeeds == {MalformedXml, Rss(<<FullItem(1)>>)}

LinkedInPages == {[type |-> "html", bio |-> Str("about us")]}

Failures == {[kind |-> "transport", body |-> None], [kind |-> "status", body |-> None]}

\* the responses the server of analyzer k can give
Responses(k) ==
    Failures \cup
    [kind : {"ok"},
     body : CASE k \in {"web", "seo"} -> SmallPages
              [] k = "news" -> SmallFeeds
              [] k = "social" -> LinkedInPages]

-----------------------------------------------------------------------------
(* analyze and _run_analysis (cli.py).                                     *)

AllTypesSeoFirst == <<"seo", "web", "news", "social">>

\* types_to_run = ["web", "seo", "news", "social"]
AllTypes == <<"web", "seo", "news", "social">>

TypesToRun(atype, all) ==
    IF all THEN AllTypes
    ELSE IF atype # None THEN <<atype.s>>
    ELSE <<>>

AnalysisResult(name) ==
    [type |-> "AnalysisResult", competitor_name |-> name,
     web |-> None, seo |-> None, news |-> None, social |-> None]

CaughtStatusOnly(exc) == exc = "HTTPStatusError"

\* except Exception as e
Caught(exc) == exc \in Exceptions

SlotAlwaysWeb(atype) == "web"

\* setattr(result, atype, analysis_result)
Slot(atype) == atype

Msg(text, atype) == [msg |-> text, atype |-> atype]

\* the variables of a run while another part of the package is examined
RunIdle ==
    /\ competitor = None /\ analysis_type = None /\ run_all = FALSE
    /\ output = None /\ rate_limit_delay = 1 /\ pc = "off"
    /\ types_to_run = <<>> /\ idx = 1 /\ result = None
    /\ status = [k \in Kinds |-> "idle"] /\ retval = [k \in Kinds |-> None]
    /\ started = <<>> /\ now = 0 /\ wake = 0
    /\ last_request_time = [k \in Kinds |-> 0]
    /\ requests = <<>> /\ console = <<>> /\ exported = None

NewsIdle == news_pc = "off" /\ news_response = None /\ news_result = None

WebIdle == web_pc = "off" /\ web_page = <<>> /\ web_result = None

CsvIdle == csv_pc = "off" /\ csv_result = None /\ csv_rows = <<>>

TechIdle == tech_pc = "off" /\ tech_html = <<>> /\ tech_outs = <<>>

FetchIdle ==
    /\ fetch_pc = "off" /\ fetch_delay = 1 /\ fetch_now = 0 /\ fetch_wake = 0
    /\ fetch_last = 0 /\ fetch_log = <<>>

SocialIdle ==
    /\ social_pc = "off" /\ social_competitor = None /\ social_profiles = <<>>
    /\ social_requests = <<>> /\ social_response = None
    /\ social_result = None /\ social_raised = FALSE

SeoIdle == seo_pc = "off" /\ seo_page = <<>> /\ seo_result = None /\ seo_raised = FALSE

RestIdle == CsvIdle /\ TechIdle /\ FetchIdle /\ SocialIdle /\ SeoIdle

Callers == {1, 2}

FileAbsent == [type |-> "absent"]

RegIdle ==
    /\ file = FileAbsent
    /\ cpc = [c \in Callers |-> "off"]
    /\ cop = [c \in Callers |-> None]
    /\ cfg = [c \in Callers |-> None]
    /\ history = <<>>
    /\ overlapped = FALSE

coreVars == <<runVars, newsVars, webVars, regVars>>

CoreIdle == RunIdle /\ NewsIdle /\ WebIdle /\ RegIdle

\* analyze: the option check, then the entry of _run_analysis up to its loop
AnalyzeCmd ==
    /\ pc = "cli"
    /\ IF analysis_type = None /\ ~run_all
       THEN /\ pc' = "done"
            /\ UNCHANGED <<types_to_run, result, last_request_time>>
       ELSE /\ result' = AnalysisResult(competitor.name)
            /\ types_to_run' = TypesToRun(analysis_type, run_all)
            /\ last_request_time' = [k \in Kinds |-> 0]
            /\ pc' = "loop"
    /\ UNCHANGED <<competitor, analysis_type, run_all, output, rate_limit_delay,
                   idx, status, retval, started, now, wake, requests, console,
                   exported>>
    /\ UNCHANGED <<newsVars, webVars, regVars, restVars>>

\* the rest of the loop body once analyze() of kind k has ended with outcome o
LoopBody(k, o) ==
    IF ~o.raised
    THEN /\ result' = [result EXCEPT ![Slot(k)] = o.value]
         /\ retval' = [retval EXCEPT ![k] = o.value]
         /\ status' = [status EXCEPT ![k] = "returned"]
         /\ console' = Append(console, Msg("complete", k))
         /\ idx' = idx + 1
         /\ pc' = "loop"
    ELSE /\ status' = [status EXCEPT ![k] = "raised"]
         /\ UNCHANGED <<result, retval>>
         /\ IF Caught(o.exc)
            THEN /\ console' = Append(console, Msg("failed", k))
                 /\ idx' = idx + 1
                 /\ pc' = "loop"
            ELSE /\ pc' = "crashed"
                 /\ UNCHANGED <<console, idx>>

\* for atype in types_to_run: the call of analyze(), up to its first suspension
LoopNext ==
    /\ pc = "loop"
    /\ idx <= Len(types_to_run)
    /\ LET k == types_to_run[idx] IN
       /\ started' = Append(started, k)
       /\ IF NeedsFetch(k, competitor)
          THEN /\ status' = [status EXCEPT ![k] = "running"]
               /\ console' = Append(console, Msg("running", k))
               /\ pc' = "rate_limit"
               /\ UNCHANGED <<result, retval, idx>>
          ELSE /\ LET o == [raised |-> FALSE, exc |-> "",
                            value |-> ReturnsWithoutFetch(k, competitor)]
                  IN  /\ result' = [result EXCEPT ![Slot(k)] = o.value]
                      /\ retval' = [retval EXCEPT ![k] = o.value]
               /\ status' = [status EXCEPT ![k] = "returned"]
               /\ console' = console \o <<Msg("running", k), Msg("complete", k)>>
               /\ idx' = idx + 1
               /\ pc' = "loop"
    /\ UNCHANGED <<competitor, analysis_type, run_all, output, rate_limit_delay,
                   types_to_run, now, wake, last_request_time, requests, exported>>
    /\ UNCHANGED <<newsVars, webVars, regVars, restVars>>

\* client.get is called: the request of analyzer k starts at time t
SendRequest(k, t) ==
    /\ last_request_time' = [last_request_time EXCEPT ![k] = t]
    /\ requests' = Append(requests, [by |-> k, at |-> t, done |-> -1])
    /\ pc' = "request"

\* BaseAnalyzer._rate_limit, up to asyncio.sleep or, with no sleep, to client.get
RateLimit ==
    /\ pc = "rate_limit"
    /\ LET k == types_to_run[idx]
           elapsed == now - last_request_time[k]
       IN  IF elapsed < rate_limit_delay
           THEN /\ wake' = now + (rate_limit_delay - elapsed)
                /\ pc' = "sleep"
                /\ UNCHANGED <<last_request_time, requests>>
           ELSE /\ SendRequest(k, now)
                /\ UNCHANGED wake
    /\ UNCHANGED <<competitor, analysis_type, run_all, output, rate_limit_delay,
                   types_to_run, idx, result, status, retval, started, now,
                   console, exported>>
    /\ UNCHANGED <<newsVars, webVars, regVars, restVars>>

\* asyncio.sleep returns, no earlier than asked; _rate_limit stamps the time
Wake ==
    /\ pc = "sleep"
    /\ \E late \in 0..MaxLatency :
         /\ now' = wake + late
         /\ SendRequest(types_to_run[idx], now')
    /\ UNCHANGED <<competitor, analysis_type, run_all, output, rate_limit_delay,
                   types_to_run, idx, result, status, retval, started, wake,
                   console, exported>>
    /\ UNCHANGED <<newsVars, webVars, regVars, restVars>>

\* the response (or the failure) arrives; analyze() runs to its end and the
\* loop body with it
Respond ==
    /\ pc = "request"
    /\ LET k == types_to_run[idx] IN
       \E latency \in 0..MaxLatency, response \in Responses(k) :
         /\ now' = now + latency
         /\ requests' = [requests EXCEPT ![Len(requests)].done = now']
         /\ LoopBody(k, AnalyzeOutcome(k, competitor, response))
    /\ UNCHANGED <<competitor, analysis_type, run_all, output, rate_limit_delay,
                   types_to_run, started, wake, last_request_time, exported>>
    /\ UNCHANGED <<newsVars, webVars, regVars, restVars>>

\* return result; _display_results(result)
LoopEnd ==
    /\ pc = "loop"
    /\ idx > Len(types_to_run)
    /\ pc' = IF output # None THEN "export" ELSE "done"
    /\ UNCHANGED <<competitor, analysis_type, run_all, output, rate_limit_delay,
                   types_to_run, idx, result, status, retval, started, now, wake,
                   last_request_time, requests, console, exported>>
    /\ UNCHANGED <<newsVars, webVars, regVars, restVars>>

\* if output: export_json or export_csv
Export ==
    /\ pc = "export"
    /\ \E output_format \in {"json", "csv"} : exported' = Str(output_format)
    /\ pc' = "done"
    /\ UNCHANGED <<competitor, analysis_type, run_all, output, rate_limit_delay,
                   types_to_run, idx, result, status, retval, started, now, wake,
                   last_request_time, requests, console>>
    /\ UNCHANGED <<newsVars, webVars, regVars, restVars>>

RunNext == AnalyzeCmd \/ LoopNext \/ RateLimit \/ Wake \/ Respond \/ LoopEnd \/ Export

vars == <<runVars, newsVars, webVars, regVars, restVars>>

\* one analyze command on a competitor of the registry
Init ==
    /\ competitor \in Competitors
    /\ analysis_type \in {None} \cup {Str(k) : k \in Kinds}
    /\ run_all \in BOOLEAN
    /\ output \in {None, Str("out/acme")}
    /\ rate_limit_delay \in 1..MaxDelay
    /\ pc = "cli"
    /\ types_to_run = <<>>
    /\ idx = 1
    /\ result = None
    /\ status = [k \in Kinds |-> "idle"]
    /\ retval = [k \in Kinds |-> None]
    /\ started = <<>>
    /\ now \in 0..MaxDelay
    /\ wake = 0
    /\ last_request_time = [k \in Kinds |-> 0]
    /\ requests = <<>>
    /\ console = <<>>
    /\ exported = None
    /\ NewsIdle /\ WebIdle /\ RegIdle /\ RestIdle

Spec == Init /\ [][RunNext]_vars

-----------------------------------------------------------------------------
(* NewsAnalyzer.analyze on every response of a bounded family: a failure   *)
(* of fetch_url, or a body that is malformed, has no channel, or is a feed *)
(* of up to MaxFeedLen items of which up to MaxSkipped lack a title or a   *)
(* link.  Item i of a feed has id i.                                       *)

DefectKinds == {<<FALSE, TRUE>>, <<TRUE, FALSE>>, <<FALSE, FALSE>>}

\* the feed of n items whose item at pos[j], if any, has the defect kind[j]
Feed(n, pos, kind) ==
    [i \in 1..n |->
        IF \E j \in DOMAIN pos : pos[j] = i
        THEN LET j == CHOOSE j \in DOMAIN pos : pos[j] = i
             IN  [id |-> i, title |-> kind[j][1], link |-> kind[j][2]]
        ELSE FullItem(i)]

InitNews ==
    /\ news_pc = "call"
    /\ \/ news_response \in Failures
       \/ \E body \in {MalformedXml, NoChannel} :
            news_response = [kind |-> "ok", body |-> body]
       \/ \E n \in 0..MaxFeedLen :
            \E pos \in [1..MaxSkipped -> 0..n], kind \in [1..MaxSkipped -> DefectKinds] :
              news_response = [kind |-> "ok", body |-> Rss(Feed(n, pos, kind))]
    /\ news_result = None
    /\ RunIdle /\ WebIdle /\ RegIdle /\ RestIdle

\* await NewsAnalyzer().analyze(competitor), the feed server answering news_response
NewsAnalyzeCall ==
    /\ news_pc = "call"
    /\ news_result' = NewsAnalyze(news_response)
    /\ news_pc' = "done"
    /\ UNCHANGED <<news_response, runVars, webVars, regVars, restVars>>

SpecNews == InitNews /\ [][NewsAnalyzeCall]_vars

-----------------------------------------------------------------------------
(* WebAnalyzer.analyze on every page of a bounded family: up to three runs *)
(* of headings, each run of one level, up to MaxDocLen headings in all, of *)
(* which the first of the second run may have an empty text.  The heading  *)
(* at position i of a page has text i.                                     *)

Page(tags, a, b, c, e) ==
    [i \in 1..(a + b + c) |->
        Heading(IF i <= a THEN tags[1] ELSE IF i <= a + b THEN tags[2] ELSE tags[3],
                IF i = e THEN 0 ELSE i)]

InitWeb ==
    /\ web_pc = "call"
    /\ \E a \in 0..MaxDocLen : \E b \in 0..(MaxDocLen - a) : \E c \in 0..(MaxDocLen - a - b) :
         \E tags \in Range(HeadingTags) \X Range(HeadingTags) \X Range(HeadingTags),
            e \in {0, a + 1} :
           web_page = Page(tags, a, b, c, e)
    /\ web_result = None
    /\ RunIdle /\ NewsIdle /\ RegIdle /\ RestIdle

\* the part of WebAnalyzer.analyze after the fetch, the site answering web_page
WebAnalyzeCall ==
    /\ web_pc = "call"
    /\ web_result' = WebAnalyze(web_page)
    /\ web_pc' = "done"
    /\ UNCHANGED <<web_page, runVars, newsVars, regVars, restVars>>

SpecWeb == InitWeb /\ [][WebAnalyzeCall]_vars

-----------------------------------------------------------------------------
(* The competitor registry (config.py).  A call is load_config, a change   *)
(* of the loaded Config in memory, and for a mutation save_config, which   *)
(* opens CONFIG_FILE for writing (truncating it) and then writes the whole *)
(* document.  Nothing serialises the steps of two callers.                 *)

FileEmpty == [type |-> "empty"]

FileGarbage == [type |-> "garbage"]

JsonFile(competitors) == [type |-> "json", competitors |-> competitors]

Config(competitors) == [type |-> "Config", competitors |-> competitors]

JSONDecodeError == [type |-> "JSONDecodeError"]

Bool(b) == [type |-> "bool", v |-> b]

\* config.model_dump_json(indent=2)
model_dump_json(config) ==
    JsonFile([n \in DOMAIN config.competitors |-> DumpCompetitor(config.competitors[n])])

\* Config.model_validate(json.loads(text))
model_validate(f) ==
    Config([n \in DOMAIN f.competitors |-> ValidateCompetitor(f.competitors[n])])

\* load_config: [raised, value]; json.loads raises on an empty or garbled file
load_config(f) ==
    CASE f.type = "absent" -> [raised |-> FALSE, value |-> Config(<<>>)]
      [] f.type = "json" -> [raised |-> FALSE, value |-> model_validate(f)]
      [] OTHER -> [raised |-> TRUE, value |-> JSONDecodeError]

ConfigWithOnly(config, comp) ==
    Config([n \in {comp.name} |-> comp])

ConfigSetDefault(config, comp) ==
    Config([n \in DOMAIN config.competitors \cup {comp.name} |->
               IF n \in DOMAIN config.competitors THEN config.competitors[n]
               ELSE comp])

\* config.competitors[competitor.name] = competitor
ConfigWith(config, comp) ==
    Config([n \in DOMAIN config.competitors \cup {comp.name} |->
               IF n = comp.name THEN comp ELSE config.competitors[n]])

\* del config.competitors[name]
ConfigWithout(config, name) ==
    Config([n \in DOMAIN config.competitors \ {name} |-> config.competitors[n]])

\* config.competitors.get(name)
DictGet(config, name) ==
    IF name \in DOMAIN config.competitors THEN config.competitors[name] ELSE None

\* the length of a document's text: every entry has the same layout, and
\* differs in length by its name (as key and as field) and its url
RECURSIVE TextLen(_, _)
TextLen(competitors, names) ==
    IF names = {} THEN 0
    ELSE LET n == CHOOSE n \in names : TRUE
         IN  150 + 2 * (IF n = "" THEN 0 ELSE 4)
                 + (IF competitors[n].url = None THEN 4 ELSE 20)
                 + TextLen(competitors, names \ {n})

\* what the file holds once `text` has been written from offset 0 and the
\* file closed: over a longer text that another writer wrote since this
\* writer truncated the file, the tail of the old text stays behind
Written(old, text) ==
    IF old.type \in {"absent", "empty"} THEN text
    ELSE IF old.type = "json"
            /\ TextLen(text.competitors, DOMAIN text.competitors)
                 >= TextLen(old.competitors, DOMAIN old.competitors)
         THEN text
         ELSE FileGarbage

\* the name argument of the commands; click accepts any string, the empty one too
Names == {"", "Acme"}

UrlInputs == {None, UrlStr("acme.test", "")}

InProgress == {c \in Callers : cpc[c] \notin {"idle", "off"}}

\* the calls begun so far
Begun == Len(history) + Cardinality(InProgress)

\* the call of caller c ends with ret
Complete(c, ret) ==
    /\ history' = Append(history, [caller |-> c, kind |-> cop[c].kind,
                                   name |-> cop[c].name, arg |-> cop[c].arg,
                                   ret |-> ret])
    /\ cpc' = [cpc EXCEPT ![c] = "idle"]
    /\ cop' = [cop EXCEPT ![c] = None]

\* caller c runs add <name> [--url], remove <name>, or a lookup of <name>
Call(c) ==
    /\ cpc[c] = "idle"
    /\ Begun < MaxCalls
    /\ \E name \in Names :
         \/ \E url \in UrlInputs :
              cop' = [cop EXCEPT ![c] =
                  [kind |-> "add", name |-> name,
                   arg |-> Competitor(name, url, None, None, Begun + 1)]]
         \/ \E kind \in {"remove", "get"} :
              cop' = [cop EXCEPT ![c] = [kind |-> kind, name |-> name, arg |-> None]]
    /\ cpc' = [cpc EXCEPT ![c] = "load"]
    /\ overlapped' = (overlapped \/ InProgress # {})
    /\ UNCHANGED <<file, cfg, history>>
    /\ UNCHANGED <<runVars, newsVars, webVars, restVars>>

\* config = load_config(), and what the function does with it in memory:
\* get_competitor returns; remove_competitor returns False for an unknown name
Load(c) ==
    /\ cpc[c] = "load"
    /\ LET loaded == load_config(file)
           op == cop[c]
       IN  IF loaded.raised
           THEN /\ Complete(c, loaded.value)
                /\ UNCHANGED cfg
           ELSE CASE op.kind = "get" ->
                       /\ Complete(c, DictGet(loaded.value, op.name))
                       /\ UNCHANGED cfg
                  [] op.kind = "remove" /\ op.name \notin DOMAIN loaded.value.competitors ->
                       /\ Complete(c, Bool(FALSE))
                       /\ UNCHANGED cfg
                  [] op.kind = "remove" /\ op.name \in DOMAIN loaded.value.competitors ->
                       /\ cfg' = [cfg EXCEPT ![c] = ConfigWithout(loaded.value, op.name)]
                       /\ cpc' = [cpc EXCEPT ![c] = "save_open"]
                       /\ UNCHANGED <<cop, history>>
                  [] op.kind = "add" ->
                       /\ cfg' = [cfg EXCEPT ![c] = ConfigWith(loaded.value, op.arg)]
                       /\ cpc' = [cpc EXCEPT ![c] = "save_open"]
                       /\ UNCHANGED <<cop, history>>
    /\ UNCHANGED <<file, overlapped>>
    /\ UNCHANGED <<runVars, newsVars, webVars, restVars>>

\* save_config: CONFIG_FILE.write_text opens the file for writing
SaveOpen(c) ==
    /\ cpc[c] = "save_open"
    /\ file' = FileEmpty
    /\ cpc' = [cpc EXCEPT ![c] = "save_write"]
    /\ UNCHANGED <<cop, cfg, history, overlapped>>
    /\ UNCHANGED <<runVars, newsVars, webVars, restVars>>

\* save_config: the document is written and the file closed; the function returns
SaveWrite(c) ==
    /\ cpc[c] = "save_write"
    /\ file' = Written(file, model_dump_json(cfg[c]))
    /\ Complete(c, IF cop[c].kind = "remove" THEN Bool(TRUE) ELSE None)
    /\ cfg' = [cfg EXCEPT ![c] = None]
    /\ UNCHANGED overlapped
    /\ UNCHANGED <<runVars, newsVars, webVars, restVars>>

RegInit(callers) ==
    /\ file = FileAbsent
    /\ cpc = [c \in Callers |-> IF c \in callers THEN "idle" ELSE "off"]
    /\ cop = [c \in Callers |-> None]
    /\ cfg = [c \in Callers |-> None]
    /\ history = <<>>
    /\ overlapped = FALSE

\* one caller: a sequential series of calls
InitRegistry == RegInit({1}) /\ RunIdle /\ NewsIdle /\ WebIdle /\ RestIdle

RegStep(c) == Call(c) \/ Load(c) \/ SaveOpen(c) \/ SaveWrite(c)

NextRegistry == \E c \in Callers : RegStep(c)

SpecRegistry == InitRegistry /\ [][NextRegistry]_vars

\* two callers whose steps interleave freely
InitRace == RegInit(Callers) /\ RunIdle /\ NewsIdle /\ WebIdle /\ RestIdle

SpecRace == InitRace /\ [][NextRegistry]_vars

-----------------------------------------------------------------------------
(* export_csv (exporters.py).  A row is <<section, field, value>>; a       *)
(* section and a field label are records, so that f"Heading {i + 1}",      *)
(* f"OG: {key}" and f"Social ({platform})" keep their parts; a value is    *)
(* the text written in the third column.                                   *)

CsvHeadingsCap == 10

CsvH2Cap == 5

CsvNewsCap == 10

Section(name) == [name |-> name, platform |-> ""]

\* f"Social ({profile.platform})"
SocialSection(platform) == [name |-> "Social", platform |-> platform]

Field(name) == [name |-> name, i |-> 0, key |-> 0]

\* f"Heading {i + 1}", f"H1 {i + 1}", f"Article {i + 1} Title", ...
FieldNo(name, i) == [name |-> name, i |-> i, key |-> 0]

\* f"OG: {key}"
FieldOG(key) == [name |-> "OG", i |-> 0, key |-> key]

\* x or ""
OrEmpty(x) == IF x = None THEN Str("") ELSE x

\* str(n)
IntToStr(n) == [type |-> "str", digits |-> n]

\* f"{x:.2f}"
Fixed2(x) == [type |-> "str", fixed2 |-> x]

\* analyzed_at.isoformat()
Isoformat(t) == [type |-> "str", iso |-> t]

\* ", ".join(list)
Join(list) == [type |-> "str", joined |-> list]

Row(section, field, value) == <<section, field, value>>

\* for i, x in enumerate(list): rows.append([section, f"{name} {i + 1}", x])
EnumRows(section, name, list) ==
    [i \in 1..Len(list) |-> Row(section, FieldNo(name, i), list[i])]

RECURSIVE Flatten(_)
Flatten(seqs) == IF seqs = <<>> THEN <<>> ELSE Head(seqs) \o Flatten(Tail(seqs))

\* if result.web: ...
WebRows(web) ==
    IF web = None THEN <<>>
    ELSE << Row(Section("Web"), Field("Title"), OrEmpty(web.title)),
            Row(Section("Web"), Field("Description"), OrEmpty(web.description)),
            Row(Section("Web"), Field("Links Count"), IntToStr(web.links_count)),
            Row(Section("Web"), Field("Images Count"), IntToStr(web.images_count)),
            Row(Section("Web"), Field("Page Size (bytes)"), IntToStr(web.page_size_bytes)),
            Row(Section("Web"), Field("Load Time (ms)"), Fixed2(web.load_time_ms)),
            Row(Section("Web"), Field("Technologies"), Join(web.technologies)) >>
         \o EnumRows(Section("Web"), "Heading", Take(web.headings, CsvHeadingsCap))

\* for key, value in result.seo.og_tags.items(): the dict in insertion order
OGRows(og_tags) ==
    [i \in 1..Len(og_tags) |-> Row(Section("SEO"), FieldOG(og_tags[i].key), og_tags[i].value)]

SeoRowsH2Uncapped(seo) ==
    IF seo = None THEN <<>>
    ELSE << Row(Section("SEO"), Field("Meta Title"), OrEmpty(seo.meta_title)),
            Row(Section("SEO"), Field("Meta Description"), OrEmpty(seo.meta_description)),
            Row(Section("SEO"), Field("Meta Keywords"), Join(seo.meta_keywords)),
            Row(Section("SEO"), Field("Canonical URL"), OrEmpty(seo.canonical_url)),
            Row(Section("SEO"), Field("Robots"), OrEmpty(seo.robots_meta)) >>
         \o EnumRows(Section("SEO"), "H1", seo.h1_tags)
         \o EnumRows(Section("SEO"), "H2", seo.h2_tags)
         \o OGRows(seo.og_tags)

\* if result.seo: ...
SeoRows(seo) ==
    IF seo = None THEN <<>>
    ELSE << Row(Section("SEO"), Field("Meta Title"), OrEmpty(seo.meta_title)),
            Row(Section("SEO"), Field("Meta Description"), OrEmpty(seo.meta_description)),
            Row(Section("SEO"), Field("Meta Keywords"), Join(seo.meta_keywords)),
            Row(Section("SEO"), Field("Canonical URL"), OrEmpty(seo.canonical_url)),
            Row(Section("SEO"), Field("Robots"), OrEmpty(seo.robots_meta)) >>
         \o EnumRows(Section("SEO"), "H1", seo.h1_tags)
         \o EnumRows(Section("SEO"), "H2", Take(seo.h2_tags, CsvH2Cap))
         \o OGRows(seo.og_tags)

\* the three rows of the i-th exported article
ArticleRows(i, item) ==
    << Row(Section("News"), FieldNo("Article Title", i), item.title),
       Row(Section("News"), FieldNo("Article URL", i), item.url),
       Row(Section("News"), FieldNo("Article Source", i), OrEmpty(item.source)) >>

\* if result.news: ...
NewsRows(news) ==
    IF news = None THEN <<>>
    ELSE << Row(Section("News"), Field("Total Mentions"), IntToStr(news.total_mentions)) >>
         \o Flatten([i \in 1..Len(Take(news.items, CsvNewsCap)) |->
                        ArticleRows(i, news.items[i])])

ProfileRowsAlwaysFollowers(profile) ==
    << Row(SocialSection(profile.platform), Field("Handle"), profile.handle),
       Row(SocialSection(profile.platform), Field("Followers"),
           IF profile.followers = None THEN Str("None") ELSE IntToStr(profile.followers.v)) >>
    \o (IF Truthy(profile.bio)
        THEN <<Row(SocialSection(profile.platform), Field("Bio"), profile.bio)>>
        ELSE <<>>)

\* the rows of one profile
ProfileRows(profile) ==
    << Row(SocialSection(profile.platform), Field("Handle"), profile.handle) >>
    \o (IF profile.followers # None
        THEN <<Row(SocialSection(profile.platform), Field("Followers"),
                   IntToStr(profile.followers.v))>>
        ELSE <<>>)
    \o (IF Truthy(profile.bio)
        THEN <<Row(SocialSection(profile.platform), Field("Bio"), profile.bio)>>
        ELSE <<>>)

\* if result.social: for profile in result.social.profiles: ...
SocialRows(social) ==
    IF social = None THEN <<>>
    ELSE Flatten([i \in 1..Len(social.profiles) |-> ProfileRows(social.profiles[i])])

CsvHeader == Row(Section("Section"), Field("Field"), Str("Value"))

\* export_csv: the rows handed to writer.writerows
export_csv(r) ==
    << CsvHeader,
       Row(Section("Meta"), Field("Competitor"), Str(r.competitor_name)),
       Row(Section("Meta"), Field("Analyzed At"), Isoformat(r.analyzed_at)) >>
    \o WebRows(r.web) \o SeoRows(r.seo) \o NewsRows(r.news) \o SocialRows(r.social)

\* the i-th element of a list of strings
Elem(of, i) == [type |-> "str", of |-> of, no |-> i]

Elems(of, n) == [i \in 1..n |-> Elem(of, i)]

\* the results export_csv is given: n and m are the lengths of the lists,
\* absent tells whether the optional scalar fields are None
CsvWeb(n, m, absent) ==
    [type |-> "WebAnalysisResult",
     title |-> IF absent THEN None ELSE Str("Acme Inc"),
     description |-> IF absent THEN None ELSE Str("We make everything"),
     headings |-> Elems("heading", n),
     links_count |-> 3, images_count |-> 0,
     technologies |-> Elems("technology", Min(m, 2)),
     page_size_bytes |-> 1024, load_time_ms |-> 12]

CsvSeo(n, m, absent) ==
    [type |-> "SEOAnalysisResult",
     meta_title |-> IF absent THEN None ELSE Str("Acme Inc"),
     meta_description |-> IF absent THEN None ELSE Str("We make everything"),
     meta_keywords |-> Elems("keyword", Min(n, 2)),
     h1_tags |-> Elems("h1", n),
     h2_tags |-> Elems("h2", m),
     canonical_url |-> IF absent THEN None ELSE Str("https://acme.test/"),
     robots_meta |-> IF absent THEN None ELSE Str("index"),
     og_tags |-> [i \in 1..m |-> [key |-> i, value |-> Elem("og", i)]],
     structured_data |-> <<>>]

CsvNews(n, absent) ==
    [type |-> "NewsAnalysisResult",
     items |-> [i \in 1..n |->
                  [type |-> "NewsItem", title |-> Elem("title", i), url |-> Elem("url", i),
                   source |-> IF absent THEN None ELSE Str("Gazette"),
                   published_at |-> IF absent THEN None ELSE Isoformat(i),
                   snippet |-> None]],
     total_mentions |-> n]

CsvProfiles ==
    { SocialProfile("twitter", Str("@acme"), None),
      SocialProfile("linkedin", Str("https://linkedin.test/acme"), Str("about us")),
      [type |-> "SocialProfile", platform |-> "other", handle |-> Str("acme"),
       followers |-> IntVal(10), following |-> IntVal(2), posts_count |-> IntVal(5),
       bio |-> Str(""), verified |-> TRUE] }

\* lists of at most two profiles of different platforms
CsvProfileLists ==
    {<<>>} \cup {<<p>> : p \in CsvProfiles}
           \cup {<<pq[1], pq[2]>> : pq \in {x \in CsvProfiles \X CsvProfiles : x[1] # x[2]}}

CsvResult(present, n, m, absent, profiles) ==
    [type |-> "AnalysisResult", competitor_name |-> "Acme", analyzed_at |-> 0,
     web |-> IF "web" \in present THEN CsvWeb(n, m, absent) ELSE None,
     seo |-> IF "seo" \in present THEN CsvSeo(n, m, absent) ELSE None,
     news |-> IF "news" \in present THEN CsvNews(n, absent) ELSE None,
     social |-> IF "social" \in present THEN SocialAnalysisResult(profiles) ELSE None]

InitCsv ==
    /\ csv_pc = "call"
    /\ \E present \in SUBSET Kinds, n \in 0..MaxCsvList, m \in 0..MaxCsvList,
          absent \in BOOLEAN, profiles \in CsvProfileLists :
           csv_result = CsvResult(present, n, m, absent, profiles)
    /\ csv_rows = <<>>
    /\ CoreIdle /\ TechIdle /\ FetchIdle /\ SocialIdle /\ SeoIdle

\* export_csv(result, output_path)
ExportCsvCall ==
    /\ csv_pc = "call"
    /\ csv_rows' = export_csv(csv_result)
    /\ csv_pc' = "done"
    /\ UNCHANGED <<csv_result, coreVars, techVars, fetchVars, socialVars, seoVars>>

SpecCsv == InitCsv /\ [][ExportCsvCall]_vars

-----------------------------------------------------------------------------
(* WebAnalyzer._detect_technologies (analyzers/web.py).  A text is the     *)
(* sequence of its characters.                                             *)

UpperCase == <<"A", "B", "C", "D", "E", "F", "G", "H", "I", "J", "K", "L", "M", "N", "O", "P", "Q", "R", "S", "T", "U", "V", "W", "X", "Y", "Z">>

LowerCase == <<"a", "b", "c", "d", "e", "f", "g", "h", "i", "j", "k", "l", "m", "n", "o", "p", "q", "r", "s", "t", "u", "v", "w", "x", "y", "z">>

\* str.lower() of one character
LowerChar(c) ==
    IF \E i \in DOMAIN UpperCase : UpperCase[i] = c
    THEN LowerCase[CHOOSE i \in DOMAIN UpperCase : UpperCase[i] = c]
    ELSE c

LowerKeepsCase(text) == text

\* str.lower()
Lower(text) == [i \in DOMAIN text |-> LowerChar(text[i])]

IsPrefix(p, text) == Len(p) <= Len(text) /\ SubSeq(text, 1, Len(p)) = p

\* needle in haystack
RECURSIVE Contains(_, _)
Contains(haystack, needle) ==
    IF IsPrefix(needle, haystack) THEN TRUE
    ELSE IF haystack = <<>> THEN FALSE
    ELSE Contains(Tail(haystack), needle)

tech_signatures ==
    << [tech |-> "React", signatures |-> <<
           <<"r", "e", "a", "c", "t">>,
           <<"_", "r", "e", "a", "c", "t", "R", "o", "o", "t", "C", "o", "n", "t", "a", "i", "n", "e", "r">>,
           <<"d", "a", "t", "a", "-", "r", "e", "a", "c", "t", "r", "o", "o", "t">> >>],
       [tech |-> "Vue.js", signatures |-> <<
           <<"v", "u", "e">>,
           <<"_", "_", "v", "u", "e", "_", "_">>,
           <<"d", "a", "t", "a", "-", "v", "-">> >>],
       [tech |-> "Angular", signatures |-> <<
           <<"n", "g", "-">>,
           <<"a", "n", "g", "u", "l", "a", "r">>,
           <<"_", "n", "g", "c", "o", "n", "t", "e", "n", "t">> >>],
       [tech |-> "jQuery", signatures |-> <<
           <<"j", "q", "u", "e", "r", "y">>,
           <<"j", "Q", "u", "e", "r", "y">> >>],
       [tech |-> "Bootstrap", signatures |-> <<
           <<"b", "o", "o", "t", "s", "t", "r", "a", "p">> >>],
       [tech |-> "Tailwind", signatures |-> <<
           <<"t", "a", "i", "l", "w", "i", "n", "d">> >>],
       [tech |-> "WordPress", signatures |-> <<
           <<"w", "p", "-", "c", "o", "n", "t", "e", "n", "t">>,
           <<"w", "p", "-", "i", "n", "c", "l", "u", "d", "e", "s">> >>],
       [tech |-> "Shopify", signatures |-> <<
           <<"s", "h", "o", "p", "i", "f", "y">>,
           <<"c", "d", "n", ".", "s", "h", "o", "p", "i", "f", "y">> >>],
       [tech |-> "Next.js", signatures |-> <<
           <<"_", "n", "e", "x", "t">>,
           <<"_", "_", "N", "E", "X", "T", "_", "D", "A", "T", "A", "_", "_">> >>],
       [tech |-> "Gatsby", signatures |-> <<
           <<"g", "a", "t", "s", "b", "y">> >>] >>

\* for sig in signatures: if sig.lower() in html_lower: ...; break
AnySignature(signatures, html_lower) ==
    \E i \in DOMAIN signatures : Contains(html_lower, Lower(signatures[i]))

\* the loop over tech_signatures.items(): the list `technologies` before set()
RECURSIVE DetectLoop(_, _, _)
DetectLoop(technologies, html_lower, t) ==
    IF t > Len(tech_signatures) THEN technologies
    ELSE DetectLoop(IF AnySignature(tech_signatures[t].signatures, html_lower)
                    THEN Append(technologies, tech_signatures[t].tech)
                    ELSE technologies,
                    html_lower, t + 1)

\* list(set(technologies)): the elements once each, in an order the build
\* and the hash seed of the process decide
ListOfSet(list) ==
    {l \in [1..Cardinality(Range(list)) -> Range(list)] : Range(l) = Range(list)}

\* the lists _detect_technologies may return
_detect_technologies(html) == ListOfSet(DetectLoop(<<>>, Lower(html), 1))

\* the fragments documents are made of
Fragments ==
    { <<"r", "e", "a", "c", "t">>,
      <<"R", "E", "A", "C", "T">>,
      <<"j", "Q", "u", "e", "r", "y">>,
      <<"D", "a", "t", "a", "-", "V", "-">>,
      <<"n", "g", "-">>,
      <<"w", "p", "-">>,
      <<"c", "o", "n", "t", "e", "n", "t">>,
      <<"<", "p", ">">>,
      <<"c", "d", "n", ".", "S", "h", "o", "p", "i", "f", "y">>,
      <<"_", "_", "n", "e", "x", "t", "_", "d", "a", "t", "a", "_", "_">>,
      <<"g", "a", "t", "s">> }

InitTech ==
    /\ tech_pc = "call"
    /\ \E n \in 0..MaxFragments : \E fs \in [1..n -> Fragments] :
           tech_html = Flatten(fs)
    /\ tech_outs = <<>>
    /\ CoreIdle /\ CsvIdle /\ FetchIdle /\ SocialIdle /\ SeoIdle

\* one more call of _detect_technologies on the same document
DetectCall ==
    /\ tech_pc = "call"
    /\ \E out \in _detect_technologies(tech_html) : tech_outs' = Append(tech_outs, out)
    /\ tech_pc' = IF Len(tech_outs) = 1 THEN "done" ELSE "call"
    /\ UNCHANGED <<tech_html, coreVars, csvVars, fetchVars, socialVars, seoVars>>

SpecTech == InitTech /\ [][DetectCall]_vars

-----------------------------------------------------------------------------
(* BaseAnalyzer._rate_limit and fetch_url (analyzers/base.py): one         *)
(* analyzer instance whose fetch_url is called several times, each call    *)
(* awaited before the next.                                                *)

SleepTimeElapsed(delay, elapsed) == elapsed

\* await asyncio.sleep(delay - elapsed)
SleepTime(delay, elapsed) == delay - elapsed

\* self._last_request_time = asyncio.get_event_loop().time(), then client.get
StampAndSend(t) ==
    /\ fetch_last' = t
    /\ fetch_log' = Append(fetch_log, [at |-> t, done |-> -1])
    /\ fetch_pc' = "request"

InitFetch ==
    /\ fetch_pc = "idle"
    /\ fetch_delay \in 1..MaxDelay
    /\ fetch_now \in 0..MaxDelay
    /\ fetch_wake = 0
    /\ fetch_last = 0
    /\ fetch_log = <<>>
    /\ CoreIdle /\ CsvIdle /\ TechIdle /\ SocialIdle /\ SeoIdle

\* fetch_url is called, `gap` ticks after the previous call returned:
\* _rate_limit up to asyncio.sleep or, with no sleep, up to client.get
FetchUrl ==
    /\ fetch_pc = "idle"
    /\ Len(fetch_log) < MaxFetches
    /\ \E gap \in 0..MaxDelay :
         LET current_time == fetch_now + gap
             elapsed == current_time - fetch_last
         IN  /\ fetch_now' = current_time
             /\ IF elapsed < fetch_delay
                THEN /\ fetch_wake' = current_time + SleepTime(fetch_delay, elapsed)
                     /\ fetch_pc' = "sleep"
                     /\ UNCHANGED <<fetch_last, fetch_log>>
                ELSE /\ StampAndSend(current_time)
                     /\ UNCHANGED fetch_wake
    /\ UNCHANGED <<fetch_delay, coreVars, csvVars, techVars, socialVars, seoVars>>

\* asyncio.sleep returns, no earlier than asked
FetchWake ==
    /\ fetch_pc = "sleep"
    /\ \E late \in 0..MaxLatency :
         /\ fetch_now' = fetch_wake + late
         /\ StampAndSend(fetch_now')
    /\ UNCHANGED <<fetch_delay, fetch_wake, coreVars, csvVars, techVars, socialVars, seoVars>>

\* the response arrives or the request fails: fetch_url returns or raises
FetchDone ==
    /\ fetch_pc = "request"
    /\ \E latency \in 0..MaxLatency :
         /\ fetch_now' = fetch_now + latency
         /\ fetch_log' = [fetch_log EXCEPT ![Len(fetch_log)].done = fetch_now']
    /\ fetch_pc' = "idle"
    /\ UNCHANGED <<fetch_delay, fetch_wake, fetch_last, coreVars, csvVars, techVars, socialVars, seoVars>>

SpecFetch == InitFetch /\ [][FetchUrl \/ FetchWake \/ FetchDone]_vars

-----------------------------------------------------------------------------
(* SocialAnalyzer.analyze on one competitor (analyzers/social.py).  The    *)
(* wait of fetch_url before the request is left to the fetcher above.      *)

TwitterHandles ==
    { Text(<<>>), Text(<<"@">>), Text(<<"a", "c", "m", "e">>),
      Text(<<"@", "a", "c", "m", "e">>), Text(<<"@", "@", "a", "c", "m", "e">>),
      Text(<<"a", "@", "c">>), Text(<<"@", "@">>) }

LinkedInUrls == {Str(""), Str("https://linkedin.test/acme"), Str("https://linkedin.test/in/acme")}

\* the LinkedIn page: with no "about" section, with one, with an empty one
SocialPages ==
    {[type |-> "html", bio |-> b] : b \in {None, Str("about us"), Str("we make everything"), Str("")}}

SocialResponses == Failures \cup [kind : {"ok"}, body : SocialPages]

LinkedInCatchesStatusOnly(exc) == exc = "HTTPStatusError"

\* _analyze_linkedin: except Exception
LinkedInCatches(exc) == exc \in Exceptions

InitSocial ==
    /\ social_pc = "call"
    /\ \E twitter \in {None} \cup TwitterHandles, linkedin \in {None} \cup LinkedInUrls :
           social_competitor = [type |-> "Competitor", name |-> "Acme", created_at |-> 0,
                                url |-> None, twitter |-> twitter, linkedin |-> linkedin]
    /\ social_profiles = <<>>
    /\ social_requests = <<>>
    /\ social_response = None
    /\ social_result = None
    /\ social_raised = FALSE
    /\ CoreIdle /\ CsvIdle /\ TechIdle /\ FetchIdle /\ SeoIdle

\* analyze(): the Twitter part, then up to the request of _analyze_linkedin,
\* or to the end when no LinkedIn URL is set
SocialAnalyze ==
    /\ social_pc = "call"
    /\ social_profiles' = TwitterProfiles(social_competitor)
    /\ IF Truthy(social_competitor.linkedin)
       THEN /\ social_requests' = Append(social_requests, social_competitor.linkedin)
            /\ social_pc' = "fetch"
            /\ UNCHANGED social_result
       ELSE /\ social_result' = SocialAnalysisResult(social_profiles')
            /\ social_pc' = "done"
            /\ UNCHANGED social_requests
    /\ UNCHANGED <<social_competitor, social_response, social_raised>>
    /\ UNCHANGED <<coreVars, csvVars, techVars, fetchVars, seoVars>>

\* the response (or the failure) of the LinkedIn request arrives;
\* _analyze_linkedin and analyze() run to their end
LinkedInRespond ==
    /\ social_pc = "fetch"
    /\ \E response \in SocialResponses :
         /\ social_response' = response
         /\ IF FetchRaises(response) /\ ~LinkedInCatches(FetchException(response))
            THEN /\ social_raised' = TRUE
                 /\ UNCHANGED <<social_profiles, social_result>>
            ELSE /\ social_profiles' =
                       Append(social_profiles,
                              _analyze_linkedin(social_competitor.linkedin, response))
                 /\ social_result' = SocialAnalysisResult(social_profiles')
                 /\ social_raised' = FALSE
    /\ social_pc' = "done"
    /\ UNCHANGED <<social_competitor, social_requests>>
    /\ UNCHANGED <<coreVars, csvVars, techVars, fetchVars, seoVars>>

SpecSocial == InitSocial /\ [][SocialAnalyze \/ LinkedInRespond]_vars

-----------------------------------------------------------------------------
(* SEOAnalyzer.analyze after the fetch (analyzers/seo.py): the H1 and H2   *)
(* lists and the structured data.  A page is the sequence of its h1, h2    *)
(* and JSON-LD script elements in document order: [tag, text, body].  For  *)
(* a heading, text 0 is a text that is empty after get_text(strip=True)    *)
(* and any other number a distinct text; for a script, body tells whether  *)
(* its content is well-formed JSON, malformed, or absent (script.string is *)
(* None), and text names the content.                                      *)

SeoH2Cap == 10

StructuredDataCap == 5

Element(tag, text, body) == [tag |-> tag, text |-> text, body |-> body]

\* script.string
ScriptString(el) ==
    IF el.body = "none" THEN None
    ELSE [type |-> "str", body |-> el.body, text |-> el.text]

\* script.string or ""
StringOrEmpty(x) == IF x = None THEN [type |-> "str", body |-> "empty", text |-> 0] ELSE x

\* json.loads: [raised, exc, value]
json_loads(str) ==
    IF str.body = "valid"
    THEN [raised |-> FALSE, exc |-> "", value |-> [type |-> "json", of |-> str.text]]
    ELSE [raised |-> TRUE, exc |-> "JSONDecodeError", value |-> None]

StructuredDataCatchesTypeErrorOnly(exc) == exc = "TypeError"

\* except (json.JSONDecodeError, TypeError): pass
StructuredDataCatches(exc) == exc \in {"JSONDecodeError", "TypeError"}

\* for script in soup.find_all("script", ...): [raised, data], raised when an
\* exception leaves the loop
RECURSIVE StructuredDataLoop(_, _)
StructuredDataLoop(scripts, structured_data) ==
    IF scripts = <<>> THEN [raised |-> FALSE, data |-> structured_data]
    ELSE LET loaded == json_loads(StringOrEmpty(ScriptString(Head(scripts)))) IN
         IF ~loaded.raised
         THEN StructuredDataLoop(Tail(scripts), Append(structured_data, loaded.value))
         ELSE IF StructuredDataCatches(loaded.exc)
         THEN StructuredDataLoop(Tail(scripts), structured_data)
         ELSE [raised |-> TRUE, data |-> structured_data]

\* [h.get_text(strip=True) for h in soup.find_all(tag)]
HeadingTexts(page, tag) ==
    LET found == find_all(page, tag) IN [i \in DOMAIN found |-> found[i].text]

SeoResult(h1_tags, h2_tags, structured_data) ==
    [type |-> "SEOAnalysisResult", h1_tags |-> h1_tags, h2_tags |-> h2_tags,
     structured_data |-> structured_data]

\* the outcome of SEOAnalyzer.analyze on a fetched page: [raised, value]
SeoAnalyze(page) ==
    LET sd == StructuredDataLoop(find_all(page, "script"), <<>>) IN
    IF sd.raised THEN [raised |-> TRUE, value |-> None]
    ELSE [raised |-> FALSE,
          value |-> SeoResult(HeadingTexts(page, "h1"),
                              Take(HeadingTexts(page, "h2"), SeoH2Cap),
                              Take(sd.data, StructuredDataCap))]

\* a document of n1 h1, n2 h2 (the e-th with an empty text) and ns script
\* elements (the b-th and the c-th not parsing), the kinds of element mixed:
\* the i-th element of each kind comes i-th among its kind
SeoPage(n1, n2, e, ns, b, c, defect) ==
    LET Max3 == IF n1 >= n2 /\ n1 >= ns THEN n1 ELSE IF n2 >= ns THEN n2 ELSE ns
        Round(i) ==
            (IF i <= n2 THEN <<Element("h2", IF i = e THEN 0 ELSE i, "")>> ELSE <<>>)
            \o (IF i <= ns
                THEN <<Element("script", i, IF i \in {b, c} THEN defect ELSE "valid")>>
                ELSE <<>>)
            \o (IF i <= n1 THEN <<Element("h1", i, "")>> ELSE <<>>)
    IN  Flatten([i \in 1..Max3 |-> Round(i)])

InitSeo ==
    /\ seo_pc = "call"
    /\ \E n1 \in 0..MaxSeoHeadings, n2 \in 0..MaxSeoHeadings, ns \in 0..MaxScripts,
          defect \in {"malformed", "none"} :
         \E e \in {0, n2}, b \in 0..ns : \E c \in {0, b + 1} :
           seo_page = SeoPage(n1, n2, e, ns, b, c, defect)
    /\ seo_result = None
    /\ seo_raised = FALSE
    /\ CoreIdle /\ CsvIdle /\ TechIdle /\ FetchIdle /\ SocialIdle

\* the part of SEOAnalyzer.analyze after the fetch, the site answering seo_page
SeoAnalyzeCall ==
    /\ seo_pc = "call"
    /\ LET o == SeoAnalyze(seo_page) IN
         /\ seo_result' = o.value
         /\ seo_raised' = o.raised
    /\ seo_pc' = "done"
    /\ UNCHANGED <<seo_page, coreVars, csvVars, techVars, fetchVars, socialVars>>

SpecSeo == InitSeo /\ [][SeoAnalyzeCall]_vars

-----------------------------------------------------------------------------
(* The claims about a run of the analyze command (specification Spec).     *)

Finished(k) == status[k] \in {"returned", "raised"}

\* _run_analysis has returned its result to analyze
RunReturned == pc \in {"export", "done"} /\ result # None

Requested(k) == run_all \/ analysis_type = Str(k)

\* C1: in the 'all' flow any two consecutive outbound HTTP requests start at
\* least rate_limit_delay apart, whichever analyzers issue them.
C1_MinSpacingBetweenAnyTwoRequests ==
    run_all =>
        \A i \in 1..(Len(requests) - 1) :
            requests[i + 1].at - requests[i].at >= rate_limit_delay

\* C2: in the 'all' flow the analyzers are started one after another in the
\* order web, seo, news, social: each only once the one before has returned
\* or raised, and each exactly once by the time the run returns.
C2_FixedSequentialOrder ==
    LET order == <<"web", "seo", "news", "social">> IN
    run_all =>
        /\ Len(started) <= Len(order)
        /\ \A i \in DOMAIN started : started[i] = order[i]
        /\ \A i \in 1..(Len(started) - 1) : Finished(started[i])
        /\ \A k \in Kinds :
             /\ status[k] = "running" => started # <<>> /\ k = started[Len(started)]
             /\ status[k] # "idle" => k \in Range(started)
        /\ RunReturned => started = order /\ \A k \in Kinds : Finished(k)

C2_Witness ==
    /\ run_all /\ pc = "done"
    /\ started = <<"web", "seo", "news", "social">>
    /\ status["web"] = "raised" /\ status["social"] = "returned"
    /\ Len(requests) = 4

\* C3: an analyzer that raises is caught and reported; the analyzers after
\* it are still run, _run_analysis still returns an AnalysisResult, and the
\* export still happens when an output path was given.
C3_FailureDoesNotAbort ==
    /\ pc # "crashed"
    /\ \A k \in Kinds :
         status[k] = "raised" => Msg("failed", k) \in Range(console)
    /\ RunReturned =>
         /\ result.type = "AnalysisResult"
         /\ \A k \in Kinds : Requested(k) => Finished(k)
    /\ pc = "done" /\ (run_all \/ analysis_type # None) =>
         /\ RunReturned
         /\ output # None => exported # None

C3_Witness ==
    /\ pc = "done" /\ run_all /\ exported # None
    /\ status["web"] = "raised" /\ status["seo"] = "raised"
    /\ status["news"] = "returned" /\ status["social"] = "returned"
    /\ result["news"] # None /\ result["social"] # None

\* C4 as stated: in the returned AnalysisResult slot k is populated if and
\* only if k was requested and analyzer k completed successfully, and
\* competitor_name is the name of the competitor analysed.
C4_SlotIffRequestedAndSucceeded ==
    RunReturned =>
        /\ result.competitor_name = competitor.name
        /\ \A k \in Kinds :
             result[k] # None <=> (Requested(k) /\ status[k] = "returned")

\* C4 as amended: slot k is populated if and only if k was requested,
\* analyzer k returned without raising, and, for web and seo, the competitor
\* has a site URL (without one they return None); competitor_name is the
\* name of the competitor analysed.
C4_SlotIffAnalyzerReturnedResult ==
    RunReturned =>
        /\ result.competitor_name = competitor.name
        /\ \A k \in Kinds :
             result[k] # None <=>
                 /\ Requested(k)
                 /\ status[k] = "returned"
                 /\ k \in {"web", "seo"} => competitor.url # None

C4_Witness ==
    /\ RunReturned /\ run_all /\ competitor.url = None
    /\ status["web"] = "returned" /\ result["web"] = None
    /\ result["news"] # None /\ result["social"] # None

\* C5: for a competitor with no site URL the web and seo analyzers return
\* None without raising, without a request and without a rate-limit wait.
C5_NoUrlNoRequest ==
    competitor.url = None =>
        \A k \in {"web", "seo"} :
            /\ status[k] \notin {"raised", "running"}
            /\ status[k] = "returned" => retval[k] = None
            /\ \A i \in DOMAIN requests : requests[i].by # k
            /\ last_request_time[k] = 0

C5_Witness ==
    /\ competitor.url = None
    /\ status["web"] = "returned" /\ status["seo"] = "returned"
    /\ retval["web"] = None /\ retval["seo"] = None
    /\ Len(requests) > 0

-----------------------------------------------------------------------------
(* The claims about NewsAnalyzer.analyze (specification SpecNews).         *)

FeedGiven ==
    /\ news_pc = "done" /\ news_response.kind = "ok"
    /\ news_response.body.wellformed /\ news_response.body.channel

\* the positions of the feed's items that have both a title and a link
AcceptedItems ==
    LET feed == news_response.body.items
    IN  {i \in DOMAIN feed : feed[i].title /\ feed[i].link}

\* the returned items are the first NewsCap accepted items, in feed order
FirstAcceptedItems ==
    LET out == news_result.value.items IN
    /\ Len(out) = Min(NewsCap, Cardinality(AcceptedItems))
    /\ \A j \in DOMAIN out :
         /\ out[j].title \in AcceptedItems /\ out[j].url = out[j].title
         /\ Cardinality({i \in AcceptedItems : i <= out[j].title}) = j

\* C6: NewsAnalyzer.analyze never propagates an error: on a failed fetch or
\* malformed XML it returns the empty result, zero items and total 0.
C6_NewsNeverPropagates ==
    news_pc = "done" =>
        /\ ~news_result.raised
        /\ news_result.value.type = "NewsAnalysisResult"
        /\ (news_response.kind # "ok" \/ ~news_response.body.wellformed) =>
             /\ news_result.value.items = <<>>
             /\ news_result.value.total_mentions = 0

C6_Witness ==
    /\ news_pc = "done" /\ news_response.kind = "transport"
    /\ ~news_result.raised /\ news_result.value.total_mentions = 0

\* C7 as stated: at most 20 items are returned, the first 20 accepted ones
\* in feed order, and total_mentions is the item count of the feed.
C7_TotalIsFeedItemCount ==
    FeedGiven =>
        /\ FirstAcceptedItems
        /\ news_result.value.total_mentions = Len(news_response.body.items)
        /\ news_result.value.total_mentions >= Len(news_result.value.items)

\* C7 as amended: at most 20 items are returned, the first 20 accepted ones
\* in feed order; items lacking a title or a link are skipped and not
\* counted: total_mentions is the number of accepted items before the cut
\* to 20, so total_mentions >= the number of returned items.
C7_TotalIsAcceptedItemCount ==
    FeedGiven =>
        /\ FirstAcceptedItems
        /\ news_result.value.total_mentions = Cardinality(AcceptedItems)
        /\ news_result.value.total_mentions >= Len(news_result.value.items)

C7_Witness ==
    /\ FeedGiven
    /\ Len(news_response.body.items) > Cardinality(AcceptedItems)
    /\ Cardinality(AcceptedItems) > NewsCap
    /\ Len(news_result.value.items) = NewsCap
    /\ news_result.value.total_mentions > NewsCap

-----------------------------------------------------------------------------
(* The claims about WebAnalyzer.analyze (specification SpecWeb).           *)

Level(tag) == IF tag = "h1" THEN 1 ELSE IF tag = "h2" THEN 2 ELSE 3

\* the positions of the page's headings with a non-empty text
NonEmptyPositions == {i \in DOMAIN web_page : web_page[i].text # 0}

DocumentOrder(p, q) == p < q

\* all h1 before all h2 before all h3, document order within a level
LevelThenDocumentOrder(p, q) ==
    \/ Level(web_page[p].tag) < Level(web_page[q].tag)
    \/ Level(web_page[p].tag) = Level(web_page[q].tag) /\ p < q

\* the headings returned are the first HeadingsCap non-empty headings of the
\* page, in document order or grouped by level, each with the tag of its
\* element
FirstHeadings(byLevel) ==
    LET out == web_result.headings
        Before(p, q) == IF byLevel THEN LevelThenDocumentOrder(p, q)
                        ELSE DocumentOrder(p, q)
    IN
    /\ Len(out) = Min(HeadingsCap, Cardinality(NonEmptyPositions))
    /\ \A j \in DOMAIN out :
         /\ out[j].text \in NonEmptyPositions
         /\ out[j].tag = web_page[out[j].text].tag
         /\ Cardinality({p \in NonEmptyPositions : Before(p, out[j].text)}) = j - 1

\* C8 as stated: the headings are the non-empty h1/h2/h3 texts in order of
\* appearance in the document, tagged with their level, capped at the first
\* 20 across the three levels.
C8_HeadingsInDocumentOrder ==
    web_pc = "done" => FirstHeadings(FALSE)

\* C8 as amended: the headings are the non-empty h1 texts in document
\* order, then the h2 texts, then the h3 texts, each tagged with its level,
\* capped at the first 20 of that list.
C8_HeadingsByLevelThenDocumentOrder ==
    web_pc = "done" => FirstHeadings(TRUE)

C8_Witness ==
    /\ web_pc = "done"
    /\ \E i, j \in NonEmptyPositions :
         i < j /\ web_page[i].tag = "h2" /\ web_page[j].tag = "h1"
    /\ Cardinality(NonEmptyPositions) > HeadingsCap
    /\ Cardinality(NonEmptyPositions) < Len(web_page)
    /\ Len(web_result.headings) = HeadingsCap

-----------------------------------------------------------------------------
(* The claims about the registry (specifications SpecRegistry, SpecRace).  *)

\* the record most recently added under name n in the calls h, None when
\* there is none or a remove_competitor(n) came after it
RECURSIVE LastAdded(_, _)
LastAdded(h, n) ==
    IF h = <<>> THEN None
    ELSE LET e == h[Len(h)] IN
         IF e.name = n /\ e.kind = "add" THEN e.arg
         ELSE IF e.name = n /\ e.kind = "remove" THEN None
         ELSE LastAdded(SubSeq(h, 1, Len(h) - 1), n)

\* C9: in a sequential series of add_competitor / remove_competitor calls,
\* get_competitor(n) returns the record most recently added under n if n
\* was not removed since, and None otherwise.
C9_GetReturnsLastAdded ==
    \A i \in DOMAIN history :
        /\ history[i].ret # JSONDecodeError
        /\ history[i].kind = "get" =>
             history[i].ret = LastAdded(SubSeq(history, 1, i - 1), history[i].name)
        /\ history[i].kind = "remove" =>
             history[i].ret = Bool(LastAdded(SubSeq(history, 1, i - 1), history[i].name) # None)

C9_Witness ==
    /\ Len(history) = 3
    /\ history[1].kind = "add" /\ history[1].name = "Acme"
    /\ history[1].arg.url = HttpUrl(UrlStr("acme.test", "/"))
    /\ history[2].kind = "get" /\ history[2].name = "Acme"
    /\ history[2].ret = history[1].arg
    /\ history[3].kind = "remove" /\ history[3].name = "Acme"
    /\ history[3].ret = Bool(TRUE)
    /\ file = JsonFile(<<>>)

\* the registry file holds, for every name, the record most recently added
\* under it and not removed since
FileMatchesHistory ==
    \A n \in Names :
        LET expected == LastAdded(history, n) IN
        IF expected = None
        THEN file.type = "absent" \/ (file.type = "json" /\ n \notin DOMAIN file.competitors)
        ELSE /\ file.type = "json" /\ n \in DOMAIN file.competitors
             /\ ValidateCompetitor(file.competitors[n]) = expected

\* a call that completed normally added a name no other call touched, every
\* call has returned normally, and the name is missing from the file
LostUpdate ==
    /\ InProgress = {}
    /\ \A i \in DOMAIN history : history[i].ret # JSONDecodeError
    /\ file.type = "json"
    /\ \E i \in DOMAIN history :
         /\ history[i].kind = "add"
         /\ \A j \in DOMAIN history \ {i} : history[j].name # history[i].name
         /\ history[i].name \notin DOMAIN file.competitors

\* C10: a mutation is a load_config and a later save_config of the whole
\* document, with no locking.  As long as no two calls overlap no call fails
\* and the file holds every change; two interleaved mutating callers reach a
\* state where a completed change is missing from the file and neither got
\* an error (C10_Witness).
C10_NoLossWithoutInterleaving ==
    ~overlapped =>
        /\ \A i \in DOMAIN history : history[i].ret # JSONDecodeError
        /\ InProgress = {} => FileMatchesHistory /\ ~LostUpdate

C10_Witness ==
    /\ LostUpdate
    /\ overlapped
    /\ Len(history) = 2
    /\ history[1].caller # history[2].caller
    /\ history[1].kind = "add" /\ history[2].kind = "add"
    /\ history[1].name \notin DOMAIN file.competitors
    /\ history[2].name \in DOMAIN file.competitors

\* C11: in every reachable registry state every stored competitor has a
\* non-empty name, no name is stored twice (the registry is a mapping keyed
\* by name, and an add under an existing name replaces the record), and
\* every key equals the name of the record stored under it.
C11_NamesNonEmptyUniqueAndKeyed ==
    file.type = "json" =>
        \A n \in DOMAIN file.competitors :
            /\ n # ""
            /\ file.competitors[n].name = n
            /\ InProgress = {} =>
                 ValidateCompetitor(file.competitors[n]) = LastAdded(history, n)

-----------------------------------------------------------------------------
(* The claims about export_csv (specification SpecCsv).                    *)

\* the positions of the rows with the given section and field labels
CsvRowsFor(section, field) ==
    {k \in DOMAIN csv_rows : csv_rows[k][1] = section /\ csv_rows[k][2] = field}

\* a scalar field of the result: the labels of its row, its value, the text
\* of the value, and when export_csv writes it
Scalar(section, field, value, text, written) ==
    [s |-> section, f |-> field, v |-> value, text |-> text, written |-> written]

WebScalars(web) ==
    IF web = None THEN {}
    ELSE LET S == Section("Web") IN
         { Scalar(S, Field("Title"), web.title, OrEmpty(web.title), "always"),
           Scalar(S, Field("Description"), web.description, OrEmpty(web.description), "always"),
           Scalar(S, Field("Links Count"), IntVal(web.links_count),
                  IntToStr(web.links_count), "always"),
           Scalar(S, Field("Images Count"), IntVal(web.images_count),
                  IntToStr(web.images_count), "always"),
           Scalar(S, Field("Page Size (bytes)"), IntVal(web.page_size_bytes),
                  IntToStr(web.page_size_bytes), "always"),
           Scalar(S, Field("Load Time (ms)"), IntVal(web.load_time_ms),
                  Fixed2(web.load_time_ms), "always") }

SeoScalars(seo) ==
    IF seo = None THEN {}
    ELSE LET S == Section("SEO") IN
         { Scalar(S, Field("Meta Title"), seo.meta_title, OrEmpty(seo.meta_title), "always"),
           Scalar(S, Field("Meta Description"), seo.meta_description,
                  OrEmpty(seo.meta_description), "always"),
           Scalar(S, Field("Canonical URL"), seo.canonical_url,
                  OrEmpty(seo.canonical_url), "always"),
           Scalar(S, Field("Robots"), seo.robots_meta, OrEmpty(seo.robots_meta), "always") }

\* the scalar fields of the result's news part, with those of the articles
\* within the export cap
NewsScalars(news) ==
    IF news = None THEN {}
    ELSE LET S == Section("News") IN
         { Scalar(S, Field("Total Mentions"), IntVal(news.total_mentions),
                  IntToStr(news.total_mentions), "always") }
         \cup UNION { LET item == news.items[i] IN
                      { Scalar(S, FieldNo("Article Title", i), item.title, item.title, "always"),
                        Scalar(S, FieldNo("Article URL", i), item.url, item.url, "always"),
                        Scalar(S, FieldNo("Article Source", i), item.source,
                               OrEmpty(item.source), "always"),
                        Scalar(S, FieldNo("Article Published At", i), item.published_at,
                               item.published_at, "never"),
                        Scalar(S, FieldNo("Article Snippet", i), item.snippet,
                               item.snippet, "never") }
                      : i \in 1..Min(Len(news.items), CsvNewsCap) }

SocialScalars(social) ==
    IF social = None THEN {}
    ELSE UNION { LET p == social.profiles[i]
                     S == SocialSection(p.platform) IN
                 { Scalar(S, Field("Platform"), Str(p.platform), Str(p.platform), "never"),
                   Scalar(S, Field("Handle"), p.handle, p.handle, "always"),
                   Scalar(S, Field("Followers"), p.followers,
                          IF p.followers = None THEN None ELSE IntToStr(p.followers.v),
                          "if set"),
                   Scalar(S, Field("Following"), p.following, p.following, "never"),
                   Scalar(S, Field("Posts Count"), p.posts_count, p.posts_count, "never"),
                   Scalar(S, Field("Bio"), p.bio, p.bio, "if set"),
                   Scalar(S, Field("Verified"), Str(IF p.verified THEN "True" ELSE "False"),
                          Str(IF p.verified THEN "True" ELSE "False"), "never") }
                 : i \in DOMAIN social.profiles }

ScalarFields(r) ==
    { Scalar(Section("Meta"), Field("Competitor"), Str(r.competitor_name),
             Str(r.competitor_name), "always"),
      Scalar(Section("Meta"), Field("Analyzed At"), IntVal(r.analyzed_at),
             Isoformat(r.analyzed_at), "always") }
    \cup WebScalars(r.web) \cup SeoScalars(r.seo)
    \cup NewsScalars(r.news) \cup SocialScalars(r.social)

\* C12 as stated: export_csv writes exactly one row for every non-null
\* scalar field of the result and of its present sub-results, and no row for
\* a null scalar field.
C12_OneRowPerNonNullScalar ==
    csv_pc = "done" =>
        \A e \in ScalarFields(csv_result) :
            Cardinality(CsvRowsFor(e.s, e.f)) = (IF e.v # None THEN 1 ELSE 0)

\* C12 as the code has it: the competitor name, the time of analysis and,
\* for each present sub-result, its title/description/counts, the four SEO
\* strings, total mentions, each exported article's title, URL and source and
\* each profile's handle are written as exactly one row each, a null one with
\* the empty text; followers is written only when not null and bio only when
\* not null and not empty; platform, following, posts count, verified,
\* published date and snippet are never written as rows.
C12_RowsOfScalarFields ==
    csv_pc = "done" =>
        \A e \in ScalarFields(csv_result) :
            LET rows == CsvRowsFor(e.s, e.f) IN
            CASE e.written = "always" ->
                   /\ Cardinality(rows) = 1
                   /\ \A k \in rows : csv_rows[k][3] = e.text /\ csv_rows[k][3] # None
              [] e.written = "if set" ->
                   /\ Cardinality(rows) = (IF Truthy(e.v) THEN 1 ELSE 0)
                   /\ \A k \in rows : csv_rows[k][3] = e.text
              [] e.written = "never" -> rows = {}

C12_Witness ==
    /\ csv_pc = "done"
    /\ csv_result.web # None /\ csv_result.web.title = None
    /\ \E k \in DOMAIN csv_rows :
         csv_rows[k] = Row(Section("Web"), Field("Title"), Str(""))
    /\ csv_result.social # None /\ Len(csv_result.social.profiles) = 2
    /\ \E i \in DOMAIN csv_result.social.profiles :
         /\ csv_result.social.profiles[i].followers = None
         /\ CsvRowsFor(SocialSection(csv_result.social.profiles[i].platform),
                       Field("Followers")) = {}
    /\ \E i \in DOMAIN csv_result.social.profiles :
         /\ csv_result.social.profiles[i].followers # None
         /\ CsvRowsFor(SocialSection(csv_result.social.profiles[i].platform),
                       Field("Followers")) # {}
    /\ csv_result.news # None /\ Len(csv_result.news.items) > 0

\* the positions of the rows of a section whose field label has the given name
CsvRowsNamed(section, name) ==
    {k \in DOMAIN csv_rows : csv_rows[k][1] = section /\ csv_rows[k][2].name = name}

\* the list's first `cap` elements have one row each, in order, and no other
\* element has a row
OneRowPerElement(section, name, list, cap) ==
    /\ Cardinality(CsvRowsNamed(section, name)) = Min(Len(list), cap)
    /\ \A i \in 1..Min(Len(list), cap) :
         \E k \in DOMAIN csv_rows :
             /\ csv_rows[k] = Row(section, FieldNo(name, i), list[i])
             /\ i > 1 => csv_rows[k - 1] = Row(section, FieldNo(name, i - 1), list[i - 1])

Uncapped == MaxCsvList + 1

\* the rows of the news articles and of the social profiles
ArticleRowCount ==
    Cardinality({k \in DOMAIN csv_rows :
        csv_rows[k][1] = Section("News") /\ csv_rows[k][2].i > 0})

ProfileRowCount == Cardinality({k \in DOMAIN csv_rows : csv_rows[k][1].name = "Social"})

HeaderAndListRows ==
    LET r == csv_result IN
    /\ csv_rows[1] = CsvHeader
    /\ \A k \in DOMAIN csv_rows : k > 1 => csv_rows[k] # CsvHeader
    /\ r.web # None =>
         OneRowPerElement(Section("Web"), "Heading", r.web.headings, CsvHeadingsCap)
    /\ r.seo # None =>
         /\ OneRowPerElement(Section("SEO"), "H2", r.seo.h2_tags, CsvH2Cap)
         /\ OneRowPerElement(Section("SEO"), "H1", r.seo.h1_tags, Uncapped)
         /\ Cardinality(CsvRowsNamed(Section("SEO"), "OG")) = Len(r.seo.og_tags)
         /\ \A i \in DOMAIN r.seo.og_tags :
              \E k \in DOMAIN csv_rows :
                  csv_rows[k] = Row(Section("SEO"), FieldOG(r.seo.og_tags[i].key),
                                    r.seo.og_tags[i].value)

\* C13 as stated: the first row is the header, and a repeated field has one
\* row per element up to its cap: headings 10 rows, H2 5 rows, news articles
\* 10 rows; H1, og-tags and social profiles one row per element, uncapped.
C13_OneRowPerElementUpToCap ==
    csv_pc = "done" =>
        /\ HeaderAndListRows
        /\ csv_result.news # None =>
             ArticleRowCount = Min(Len(csv_result.news.items), CsvNewsCap)
        /\ csv_result.social # None =>
             ProfileRowCount = Len(csv_result.social.profiles)

\* C13 as the code has it: the first row is the header; headings have one
\* row per element up to 10, H2 up to 5, H1 and og-tags one row per element
\* uncapped; each of the first 10 news articles has three rows (title, URL,
\* source), so up to 30 rows; every social profile has one handle row and at
\* most two more (followers, bio), uncapped.
C13_RowsOfRepeatedFields ==
    csv_pc = "done" =>
        /\ HeaderAndListRows
        /\ csv_result.news # None =>
             LET items == csv_result.news.items IN
             /\ ArticleRowCount = 3 * Min(Len(items), CsvNewsCap)
             /\ \A i \in 1..Min(Len(items), CsvNewsCap) :
                  \E k \in DOMAIN csv_rows :
                      /\ csv_rows[k] = Row(Section("News"), FieldNo("Article Title", i), items[i].title)
                      /\ csv_rows[k + 1] = Row(Section("News"), FieldNo("Article URL", i), items[i].url)
                      /\ csv_rows[k + 2][2] = FieldNo("Article Source", i)
        /\ csv_result.social # None =>
             LET profiles == csv_result.social.profiles IN
             /\ ProfileRowCount >= Len(profiles)
             /\ ProfileRowCount <= 3 * Len(profiles)
             /\ \A i \in DOMAIN profiles :
                  Cardinality(CsvRowsFor(SocialSection(profiles[i].platform),
                                         Field("Handle"))) = 1

C13_Witness ==
    /\ csv_pc = "done"
    /\ csv_result.web # None /\ Len(csv_result.web.headings) > CsvHeadingsCap
    /\ csv_result.seo # None /\ Len(csv_result.seo.h2_tags) > CsvH2Cap
    /\ Len(csv_result.seo.h1_tags) > CsvHeadingsCap
    /\ Cardinality(CsvRowsNamed(Section("SEO"), "H1")) = Len(csv_result.seo.h1_tags)
    /\ Cardinality(CsvRowsNamed(Section("SEO"), "H2")) = CsvH2Cap
    /\ csv_result.news # None /\ Len(csv_result.news.items) > CsvNewsCap
    /\ ArticleRowCount = 3 * CsvNewsCap
    /\ csv_result.social # None /\ Len(csv_result.social.profiles) = 2

-----------------------------------------------------------------------------
(* The claims about _detect_technologies (specification SpecTech).         *)

\* the same character, or the two cases of one letter
SameLetter(a, b) ==
    a = b \/ \E i \in DOMAIN UpperCase : {a, b} = {UpperCase[i], LowerCase[i]}

\* sig occurs in html at some position, whatever the case of the letters
Occurs(sig, html) ==
    \E p \in 1..(Len(html) - Len(sig) + 1) :
        \A i \in 1..Len(sig) : SameLetter(html[p + i - 1], sig[i])

\* C14: every call of _detect_technologies on a document reports a
\* technology exactly once if and only if one of its signatures occurs in the
\* document, at any position and in any case, and two calls on the same
\* document report the same set.
C14_DetectedIffSignatureOccurs ==
    /\ \A k \in DOMAIN tech_outs :
         LET out == tech_outs[k] IN
         /\ \A i, j \in DOMAIN out : out[i] = out[j] => i = j
         /\ \A t \in DOMAIN tech_signatures :
              (\E i \in DOMAIN out : out[i] = tech_signatures[t].tech)
                  <=> \E s \in DOMAIN tech_signatures[t].signatures :
                          Occurs(tech_signatures[t].signatures[s], tech_html)
         /\ \A i \in DOMAIN out :
              \E t \in DOMAIN tech_signatures : out[i] = tech_signatures[t].tech
    /\ \A k, l \in DOMAIN tech_outs : Range(tech_outs[k]) = Range(tech_outs[l])

C14_Witness ==
    /\ tech_pc = "done" /\ Len(tech_outs) = 2
    /\ tech_html = <<"<", "p", ">", "R", "E", "A", "C", "T">>
    /\ tech_outs[1] = <<"React">> /\ tech_outs[2] = <<"React">>

-----------------------------------------------------------------------------
(* The claims about one fetcher (specification SpecFetch).                 *)

\* C15 as stated: the elapsed time is measured from the moment the previous
\* request completed, so a request never starts less than rate_limit_delay
\* after the previous request of the fetcher completed.
C15_SpacedFromPreviousCompletion ==
    /\ (fetch_pc = "idle" /\ fetch_log # <<>>) =>
           fetch_last = fetch_log[Len(fetch_log)].done
    /\ \A i \in DOMAIN fetch_log :
           i > 1 => fetch_log[i].at - fetch_log[i - 1].done >= fetch_delay

\* C15 as the code has it: the elapsed time is measured from the moment the
\* previous request was started (the time stamped just before it was sent);
\* if it is less than rate_limit_delay the caller is suspended for the
\* remainder, so a request never starts less than rate_limit_delay after the
\* previous request of the fetcher started.
C15_SpacedFromPreviousStart ==
    /\ (fetch_pc \in {"idle", "request"} /\ fetch_log # <<>>) =>
           fetch_last = fetch_log[Len(fetch_log)].at
    /\ fetch_pc = "sleep" =>
           /\ fetch_now - fetch_last < fetch_delay
           /\ fetch_wake = fetch_last + fetch_delay
    /\ \A i \in DOMAIN fetch_log :
           i > 1 => fetch_log[i].at - fetch_log[i - 1].at >= fetch_delay

C15_Witness ==
    /\ fetch_pc = "idle"
    /\ Len(fetch_log) >= 2
    /\ fetch_log[2].at - fetch_log[1].at = fetch_delay
    /\ fetch_log[1].done > fetch_log[1].at
    /\ fetch_log[2].at - fetch_log[1].done < fetch_delay

-----------------------------------------------------------------------------
(* The claims about SocialAnalyzer.analyze (specification SpecSocial).     *)

\* a platform is configured when its field of the competitor is a non-empty
\* string
Configured(x) == x # None /\ x # Str("") /\ x # Text(<<>>)

\* h without its leading "@" characters
StrippedOfAt(h, stripped) ==
    \E n \in 0..Len(h) :
        /\ \A i \in 1..n : h[i] = "@"
        /\ stripped = SubSeq(h, n + 1, Len(h))
        /\ stripped = <<>> \/ stripped[1] # "@"

NoEngagement(p) ==
    /\ p.followers = None /\ p.following = None /\ p.posts_count = None
    /\ p.verified = FALSE

\* C16: SocialAnalyzer.analyze never raises and returns one profile per
\* configured platform, twitter before linkedin; the Twitter profile is
\* made without a request, its handle is "@" followed by the configured
\* handle without its leading "@", and its engagement fields and bio are
\* null; the LinkedIn profile carries the configured URL as handle, and when
\* the fetch failed it carries nothing else (bio and counts null, verified
\* false).
C16_OneProfilePerPlatform ==
    LET c == social_competitor
        tw == IF Configured(c.twitter) THEN 1 ELSE 0
        li == IF Configured(c.linkedin) THEN 1 ELSE 0
    IN
    /\ ~social_raised
    /\ \A i \in DOMAIN social_requests : social_requests[i] = c.linkedin
    /\ social_pc \in {"fetch", "done"} =>
         /\ Len(social_requests) = li
         /\ Len(social_profiles) >= tw
         /\ tw = 1 =>
              LET p == social_profiles[1] IN
              /\ p.platform = "twitter"
              /\ p.handle.chars[1] = "@"
              /\ StrippedOfAt(c.twitter.chars, Tail(p.handle.chars))
              /\ NoEngagement(p) /\ p.bio = None
    /\ social_pc = "done" =>
         /\ social_result = SocialAnalysisResult(social_profiles)
         /\ Len(social_profiles) = tw + li
         /\ li = 1 =>
              LET p == social_profiles[tw + 1] IN
              /\ p.platform = "linkedin"
              /\ p.handle = c.linkedin
              /\ NoEngagement(p)
              /\ FetchRaises(social_response) => p.bio = None

C16_Witness ==
    /\ social_pc = "done" /\ ~social_raised
    /\ social_competitor.twitter = Text(<<"@", "@", "a", "c", "m", "e">>)
    /\ Len(social_profiles) = 2
    /\ social_profiles[1].handle = Text(<<"@", "a", "c", "m", "e">>)
    /\ FetchRaises(social_response)
    /\ social_profiles[2] = SocialProfile("linkedin", social_competitor.linkedin, None)
    /\ Len(social_requests) = 1

-----------------------------------------------------------------------------
(* The claims about SEOAnalyzer.analyze (specification SpecSeo).           *)

\* the positions in the page of the elements with the given tag
PositionsOf(tag) == {p \in DOMAIN seo_page : seo_page[p].tag = tag}

\* the positions of the JSON-LD blocks that parse as JSON
ParsingBlocks == {p \in PositionsOf("script") : seo_page[p].body = "valid"}

\* list holds, in document order, what Value gives for the first `cap` of
\* the positions
FirstInDocumentOrder(list, positions, cap, byText) ==
    /\ Len(list) = Min(cap, Cardinality(positions))
    /\ \A j \in DOMAIN list :
         \E p \in positions :
             /\ Cardinality({q \in positions : q < p}) = j - 1
             /\ list[j] = IF byText THEN seo_page[p].text
                          ELSE [type |-> "json", of |-> seo_page[p].text]

\* C17: SEOAnalyzer.analyze reports at most 5 structured-data entries, the
\* first 5 JSON-LD blocks in document order that parse as JSON; a malformed
\* or empty block is skipped and never makes the analysis fail; the H2 list
\* is the first 10 h2 texts in document order and the H1 list holds every
\* h1 text.
C17_StructuredDataAndHeadingCaps ==
    seo_pc = "done" =>
        /\ ~seo_raised
        /\ seo_result # None
        /\ Len(seo_result.structured_data) <= StructuredDataCap
        /\ FirstInDocumentOrder(seo_result.structured_data, ParsingBlocks,
                                StructuredDataCap, FALSE)
        /\ FirstInDocumentOrder(seo_result.h2_tags, PositionsOf("h2"), SeoH2Cap, TRUE)
        /\ FirstInDocumentOrder(seo_result.h1_tags, PositionsOf("h1"),
                                Len(seo_page), TRUE)

C17_Witness ==
    /\ seo_pc = "done" /\ ~seo_raised
    /\ Cardinality(ParsingBlocks) > StructuredDataCap
    /\ \E p \in PositionsOf("script") \ ParsingBlocks :
         Cardinality({q \in ParsingBlocks : q < p}) < StructuredDataCap - 1
    /\ Len(seo_result.structured_data) = StructuredDataCap
    /\ Cardinality(PositionsOf("h2")) > SeoH2Cap
    /\ Len(seo_result.h2_tags) = SeoH2Cap
    /\ Len(seo_result.h1_tags) > SeoH2Cap

====
